---- MODULE Spec2Model ----
(***************************************************************************)
(* Crawl orchestration of neuralarc-ai/86a.                                *)
(*                                                                         *)
(* Two layers are modelled.                                                *)
(*  - backend/services/crawler_service.py: the in-process registries       *)
(*    active_jobs / job_results, the REST handlers start_crawl,            *)
(*    get_crawl_status, get_crawl_results, stop_crawl, delete_crawl_job    *)
(*    and the background task execute_crawl_job.                           *)
(*  - backend/agent/tools/manus_crawler_tool.py: ManusCrawlerAgent         *)
(*    (create_crawl_job, execute_crawl_job, _crawl_loop and its helpers),  *)
(*    CrawlerMemory, the file based Job Store, and the status and results  *)
(*    queries of ManusCrawlerTool, which read the store.                   *)
(* The service reaches the agent through ManusCrawler.crawl_urls, which    *)
(* the service imports but the repository does not define; it is modelled  *)
(* after the way ManusCrawlerTool.crawl_websites drives the agent          *)
(* (create_crawl_job, execute_crawl_job, return the job's results).        *)
(*                                                                         *)
(* Every action is one run of a coroutine between two suspension points:   *)
(* awaits of coroutines that never yield (save_job, _validate_results,     *)
(* _extract_new_urls) do not let another coroutine run.                    *)
(***************************************************************************)
EXTENDS Integers, Sequences, FiniteSets, TLC

\* ---------------------------------------------------------------- bounds
MaxSeeds == 2
MaxPages == 2
MaxDepth == 2
\* seeds of a job whose first batch is larger than the concurrency limit
MaxBatchSeeds == 4

\* ------------------------------------------------------ program constants
\* current_batch = urls_to_crawl[:min(5, len(urls_to_crawl))]
BatchCap == 5
\* 'parallel_limit': min(3, len(urls))
ParallelCap == 3
\* job.progress = min(95.0, ...)
ProgressCap == 95

\* ------------------------------------------------------------------ URLs
\* The URLs of the modelled web: two crawlable pages, a document whose
\* extension is upper case, a non-HTTP link, and a hub page with a third
\* crawlable page among its links.
PageA == "http://a"
PageB == "https://b"
DocPdf == "http://a/f.PDF"
FtpC == "ftp://c"
PageHub == "http://hub"
PageC == "http://c"
Urls == {PageA, PageB, DocPdf, FtpC, PageHub, PageC}

\* url.startswith(('http://', 'https://'))
StartsWithHttp(url) == url \in {PageA, PageB, DocPdf, PageHub, PageC}

\* url.lower()
Lower(url) == IF url = DocPdf THEN "http://a/f.pdf" ELSE url

\* ['.pdf', '.jpg', '.png', '.gif', '.zip', '.exe']; of the modelled URLs
\* only the lower-cased document ends with one of them.
EndsWithSkippedExt(lowered) == lowered \in {"http://a/f.pdf"}

\* --------------------------------------------------------------- helpers
Range(s) == {s[i] : i \in DOMAIN s}

SeqsUpTo(S, n) == UNION {[1..k -> S] : k \in 0..n}

Min(a, b) == IF a < b THEN a ELSE b

\* s[:n]
Take(s, n) == SubSeq(s, 1, Min(n, Len(s)))

\* s[n:]
Drop(s, n) == SubSeq(s, n + 1, Len(s))

RECURSIVE Flatten(_)
Flatten(ss) == IF ss = <<>> THEN <<>> ELSE Head(ss) \o Flatten(Tail(ss))

NoDuplicates(s) == \A i, j \in DOMAIN s : i # j => s[i] # s[j]

\* list(set(xs)): the elements of a set in the order the hash table yields
\* them, which is any order.
ListOfSet(S) == {f \in [1..Cardinality(S) -> S] : NoDuplicates(f)}

\* ------------------------------------------------------------ data model
\* class CrawlStatus(Enum)
PENDING == "pending"
RUNNING == "running"
COMPLETED == "completed"
FAILED == "failed"
PAUSED == "paused"
CrawlStatus == {PENDING, RUNNING, COMPLETED, FAILED, PAUSED}

\* Optional[...] = None
None == "None"

\* CrawlConfig: the two fields the crawl loop reads.
CrawlConfig == [max_pages : 1..MaxPages, max_depth : 1..MaxDepth]

\* CrawlResult as _crawl_single_url builds it. The error result has
\* status_code 0, empty content and no links; a loaded page has the status
\* of the response, the page's HTML and the links the extractor found.
\* The modelled pages: a page served with 200 carries one of LinkLists, a
\* page served with 404 links to both crawlable pages, a blank page has no
\* links, and neither have the pages served with 399 and 400, the two
\* status codes at the upper end of the range _validate_results accepts.
\* The hub page can also be served with its three links, in page order.
LinkLists == {<<>>, <<PageA>>, <<PageB>>, <<DocPdf, FtpC>>}
HubLinks == <<PageA, PageB, PageC>>

ErrorResult(url) ==
    [url |-> url, status_code |-> 0, content |-> "", links |-> <<>>,
     error |-> "timeout"]

PageResult(url, code, content, links) ==
    [url |-> url, status_code |-> code, content |-> content, links |-> links,
     error |-> None]

\* What one call of _crawl_single_url(url) can return.
FetchOutcomes(url) ==
    {ErrorResult(url)}
    \cup {PageResult(url, 200, "<html>", l) : l \in LinkLists}
    \cup {PageResult(url, 404, "<html>", <<PageA, PageB>>)}
    \cup {PageResult(url, 200, "  ", <<>>)}
    \cup {PageResult(url, 399, "<html>", <<>>), PageResult(url, 400, "<html>", <<>>)}
    \cup (IF url = PageHub THEN {PageResult(url, 200, "<html>", HubLinks)} ELSE {})

\* content.strip()
Strip(content) == IF content \in {"", "  "} THEN "" ELSE content

\* CrawlJob as created by create_crawl_job / start_crawl; timestamps are
\* modelled by whether they are set.
NewJob(urls, config) ==
    [urls |-> urls, config |-> config, status |-> PENDING, results |-> <<>>,
     started_at |-> FALSE, completed_at |-> FALSE, error_message |-> None,
     progress |-> 0]

\* The agent's job before create_crawl_job has run.
NoJob == [NewJob(<<>>, [max_pages |-> 1, max_depth |-> 1]) EXCEPT !.status = "none"]

\* ------------------------------------------------------ CrawlerMemory
\* A file of the store: absent, valid JSON, or truncated by a dump that
\* raised after open(..., 'w').
Absent == [file |-> "absent"]
Corrupt == [file |-> "corrupt"]
Json(data) == [file |-> "json", data |-> data]

\* open() + json.dump(): the write succeeds, open() raises (the file keeps
\* its content), or json.dump raises on a value it cannot serialise (the
\* file is left truncated). asdict(job.config) keeps the ExtractionType
\* members of config.extract_types, which json cannot serialise, so the
\* last case is an ordinary one. Which outcome a write has is left open
\* here and not tied to the config, so that the crawl loop is analysed for
\* every behaviour of the store.
WriteOutcomes == {"ok", "open_failed", "dump_failed"}

WriteFile(old, data, outcome) ==
    CASE outcome = "ok" -> Json(data)
      [] outcome = "open_failed" -> old
      [] OTHER -> Corrupt

\* job_data of save_job
JobData(j) ==
    [urls |-> j.urls, config |-> j.config, status |-> j.status,
     started_at |-> j.started_at, completed_at |-> j.completed_at,
     error_message |-> j.error_message, progress |-> j.progress]

\* ---------------------------------------------------------------- state
VARIABLES
    job_objects,     \* the CrawlJob objects start_crawl created, by job id
    active_jobs,     \* keys of crawler_service.active_jobs (id -> job_objects[id])
    job_results,     \* crawler_service.job_results: job id -> list of dicts
    issued,          \* job ids uuid4 has handed out
    reply,           \* what the last request or query returned to its caller
    pc,              \* position of the background task of the job
    job,             \* the CrawlJob the agent executes
    memory_jobs,     \* CrawlerMemory: crawler_jobs/<id>.json
    memory_results,  \* CrawlerMemory: crawler_results/<id>_results.json
    urls_to_crawl,   \* _crawl_loop: the frontier
    crawled_urls,    \* _crawl_loop: the fetched set
    depth,           \* _crawl_loop: the depth counter
    current_batch,   \* _crawl_loop: the batch in flight
    in_flight,       \* indices of current_batch holding the semaphore
    batch_results,   \* index of current_batch -> CrawlResult, once returned
    dispatched       \* history: the batches handed to _execute_crawl_batch

vars == <<job_objects, active_jobs, job_results, issued, reply, pc, job, memory_jobs,
          memory_results, urls_to_crawl, crawled_urls, depth, current_batch,
          in_flight, batch_results, dispatched>>

svc_vars == <<job_objects, active_jobs, job_results, issued, reply>>
loop_vars == <<urls_to_crawl, crawled_urls, depth, current_batch, in_flight,
               batch_results, dispatched>>
agent_vars == <<job, memory_jobs, memory_results>>

\* The one job id the modelled service hands out.
JobIds == {"j1"}

\* The job ids clients send: the one the service hands out and one it
\* never does.
RequestIds == JobIds \cup {"j2"}

\* Nothing has been returned yet.
NoReply == [kind |-> "none"]

\* raise HTTPException(status_code=404, detail="Crawl job not found")
NotFound == [kind |-> "HTTPException", status_code |-> 404]

\* return {"message": ...}
Message(text) == [kind |-> "message", message |-> text]

Put(f, k, v) == [x \in DOMAIN f \cup {k} |-> IF x = k THEN v ELSE f[x]]
Del(f, k) == [x \in DOMAIN f \ {k} |-> f[x]]
EmptyMap == [x \in {} |-> 0]

Init ==
    /\ job_objects = EmptyMap
    /\ active_jobs = {}
    /\ job_results = EmptyMap
    /\ issued = {}
    /\ reply = NoReply
    /\ pc = "idle"
    /\ job = NoJob
    /\ memory_jobs = Absent
    /\ memory_results = Absent
    /\ urls_to_crawl = <<>>
    /\ crawled_urls = {}
    /\ depth = 0
    /\ current_batch = <<>>
    /\ in_flight = {}
    /\ batch_results = EmptyMap
    /\ dispatched = <<>>

\* ------------------------------------------------- ManusCrawlerAgent
\* _validate_results: the per-result test
IsValidated_status_upto_400(result) ==
    /\ result.error = None
    /\ ~(result.status_code < 200 \/ result.status_code > 400)
    /\ Strip(result.content) # ""

IsValidated(result) ==
    /\ result.error = None
    /\ ~(result.status_code < 200 \/ result.status_code >= 400)
    /\ Strip(result.content) # ""

_validate_results_keep_any_status(results) ==
    SelectSeq(results, LAMBDA r : r.error = None /\ Strip(r.content) # "")

_validate_results_keep_errors(results) ==
    SelectSeq(results, LAMBDA r : r.error # None \/ IsValidated(r))

_validate_results(results) == SelectSeq(results, IsValidated)

\* _extract_new_urls: the links that pass the three skips
EligibleLinks_case_sensitive(results, crawled) ==
    {url \in UNION {Range(r.links) : r \in Range(results)} :
        /\ ~(url \in crawled)
        /\ StartsWithHttp(url)
        /\ ~EndsWithSkippedExt(url)}

EligibleLinks(results, crawled) ==
    {url \in UNION {Range(r.links) : r \in Range(results)} :
        /\ ~(url \in crawled)
        /\ StartsWithHttp(url)
        /\ ~EndsWithSkippedExt(Lower(url))}

\* _extract_new_urls: list(set(new_urls))[:config.max_pages], every list
\* the call can return.
_extract_new_urls(results, crawled, config) ==
    {Take(l, config.max_pages) : l \in ListOfSet(EligibleLinks(results, crawled))}

\* min(95.0, (len(job.results) / job.config.max_pages) * 100), in whole
\* percent.
Progress(n_results, max_pages) == Min(ProgressCap, (n_results * 100) \div max_pages)

\* The while condition of _crawl_loop.
LoopCondition_depth_le ==
    /\ urls_to_crawl # <<>>
    /\ depth <= job.config.max_depth
    /\ Len(job.results) < job.config.max_pages

LoopCondition ==
    /\ urls_to_crawl # <<>>
    /\ depth < job.config.max_depth
    /\ Len(job.results) < job.config.max_pages

\* except Exception as e: of execute_crawl_job
ExceptHandler_keeps_status(j, message) ==
    [j EXCEPT !.error_message = message, !.completed_at = TRUE]

ExceptHandler(j, message) ==
    [j EXCEPT !.status = FAILED, !.error_message = message, !.completed_at = TRUE]

\* finally: of execute_crawl_job, then return job. j is the job as the try
\* or except block left it, job_file the job's file at that point. A write
\* that raises propagates to the caller of execute_crawl_job.
Finally_without_save_results(j, job_file) ==
    \E o1 \in WriteOutcomes :
        /\ job' = j
        /\ memory_jobs' = WriteFile(job_file, JobData(j), o1)
        /\ memory_results' = memory_results
        /\ pc' = IF o1 = "ok" THEN "returned" ELSE "raised"

Finally(j, job_file) ==
    \E o1 \in WriteOutcomes :
        /\ job' = j
        /\ memory_jobs' = WriteFile(job_file, JobData(j), o1)
        /\ IF o1 = "ok"
           THEN \E o2 \in WriteOutcomes :
                    /\ memory_results' = WriteFile(memory_results, j.results, o2)
                    /\ pc' = IF o2 = "ok" THEN "returned" ELSE "raised"
           ELSE /\ memory_results' = memory_results
                /\ pc' = "raised"

\* create_crawl_job: the job is built and saved; save_job raising ends the
\* caller with that exception.
create_crawl_job(urls, config) ==
    \E o \in WriteOutcomes :
        LET j == NewJob(urls, config) IN
        /\ job' = j
        /\ memory_jobs' = WriteFile(memory_jobs, JobData(j), o)
        /\ pc' = IF o = "ok" THEN "created" ELSE "create_raised"
        /\ UNCHANGED <<memory_results, loop_vars>>

\* ManusCrawlerTool.crawl_websites up to execute_crawl_job: the config is
\* built from the arguments and the job created.
crawl_websites(urls, config) ==
    /\ pc = "idle"
    /\ create_crawl_job(urls, config)
    /\ UNCHANGED svc_vars

\* execute_crawl_job up to the first suspension of _crawl_loop: the status
\* update, save_job and the locals of _crawl_loop.
execute_crawl_job ==
    /\ pc = "created"
    /\ LET j == [job EXCEPT !.status = RUNNING, !.started_at = TRUE] IN
       \E o \in WriteOutcomes :
          IF o = "ok"
          THEN /\ job' = j
               /\ memory_jobs' = WriteFile(memory_jobs, JobData(j), o)
               /\ pc' = "loop"
               /\ urls_to_crawl' = j.urls
               /\ crawled_urls' = {}
               /\ depth' = 0
               /\ UNCHANGED <<memory_results, current_batch, in_flight,
                              batch_results, dispatched>>
          ELSE /\ Finally(ExceptHandler(j, o), WriteFile(memory_jobs, JobData(j), o))
               /\ UNCHANGED loop_vars
    /\ UNCHANGED svc_vars

\* One pass of the while test that succeeds: the batch is cut from the
\* front of the frontier, planned and handed to asyncio.gather; the first
\* parallel_limit fetches take the semaphore.
crawl_loop_dispatch_whole_frontier ==
    /\ pc = "loop"
    /\ LoopCondition
    /\ LET batch == urls_to_crawl
           parallel_limit == Min(ParallelCap, Len(batch))
       IN /\ current_batch' = batch
          /\ urls_to_crawl' = Drop(urls_to_crawl, Len(batch))
          /\ in_flight' = 1..parallel_limit
          /\ batch_results' = EmptyMap
          /\ dispatched' = Append(dispatched, batch)
    /\ pc' = "fetching"
    /\ UNCHANGED <<svc_vars, agent_vars, crawled_urls, depth>>

crawl_loop_dispatch_without_semaphore ==
    /\ pc = "loop"
    /\ LoopCondition
    /\ LET batch == Take(urls_to_crawl, Min(BatchCap, Len(urls_to_crawl)))
       IN /\ current_batch' = batch
          /\ urls_to_crawl' = Drop(urls_to_crawl, Len(batch))
          /\ in_flight' = 1..Len(batch)
          /\ batch_results' = EmptyMap
          /\ dispatched' = Append(dispatched, batch)
    /\ pc' = "fetching"
    /\ UNCHANGED <<svc_vars, agent_vars, crawled_urls, depth>>

crawl_loop_dispatch ==
    /\ pc = "loop"
    /\ LoopCondition
    /\ LET batch == Take(urls_to_crawl, Min(BatchCap, Len(urls_to_crawl)))
           parallel_limit == Min(ParallelCap, Len(batch))
       IN /\ current_batch' = batch
          /\ urls_to_crawl' = Drop(urls_to_crawl, Len(batch))
          /\ in_flight' = 1..parallel_limit
          /\ batch_results' = EmptyMap
          /\ dispatched' = Append(dispatched, batch)
    /\ pc' = "fetching"
    /\ UNCHANGED <<svc_vars, agent_vars, crawled_urls, depth>>

\* _crawl_single_url returns for one URL of the batch and releases the
\* semaphore; the fetch that waited longest, if any, takes it.
crawl_single_url_return(i) ==
    /\ pc = "fetching"
    /\ i \in in_flight
    /\ \E result \in FetchOutcomes(current_batch[i]) :
          batch_results' = Put(batch_results, i, result)
    /\ LET waiting == (1..Len(current_batch)) \ (in_flight \cup DOMAIN batch_results)
       IN in_flight' = (in_flight \ {i}) \cup
              (IF waiting = {} THEN {}
               ELSE {CHOOSE w \in waiting : \A v \in waiting : w <= v})
    /\ UNCHANGED <<svc_vars, agent_vars, pc, urls_to_crawl, crawled_urls, depth,
                   current_batch, dispatched>>

\* The rest of the iteration once gather has every result: validate,
\* extend job.results, expand the frontier, update the fetched set and the
\* progress, save_job, depth += 1 and the sleep. save_job raising leaves the
\* loop through the except and finally blocks of execute_crawl_job.
crawl_loop_batch_end_prepend ==
    /\ pc = "fetching"
    /\ DOMAIN batch_results = 1..Len(current_batch)
    /\ LET validated_results == _validate_results(batch_results)
           results == validated_results \o job.results
           j == [job EXCEPT !.results = results,
                            !.progress = Progress(Len(results), job.config.max_pages)]
       IN /\ \E new_urls \in _extract_new_urls(validated_results, crawled_urls, job.config) :
                urls_to_crawl' = urls_to_crawl \o new_urls
          /\ crawled_urls' = crawled_urls \cup {r.url : r \in Range(validated_results)}
          /\ \E o \in WriteOutcomes :
                IF o = "ok"
                THEN /\ job' = j
                     /\ memory_jobs' = WriteFile(memory_jobs, JobData(j), o)
                     /\ depth' = depth + 1
                     /\ pc' = "loop"
                     /\ UNCHANGED memory_results
                ELSE /\ Finally(ExceptHandler(j, o), WriteFile(memory_jobs, JobData(j), o))
                     /\ UNCHANGED depth
    /\ UNCHANGED <<svc_vars, current_batch, in_flight, batch_results, dispatched>>

crawl_loop_batch_end ==
    /\ pc = "fetching"
    /\ DOMAIN batch_results = 1..Len(current_batch)
    /\ LET validated_results == _validate_results(batch_results)
           results == job.results \o validated_results
           j == [job EXCEPT !.results = results,
                            !.progress = Progress(Len(results), job.config.max_pages)]
       IN /\ \E new_urls \in _extract_new_urls(validated_results, crawled_urls, job.config) :
                urls_to_crawl' = urls_to_crawl \o new_urls
          /\ crawled_urls' = crawled_urls \cup {r.url : r \in Range(validated_results)}
          /\ \E o \in WriteOutcomes :
                IF o = "ok"
                THEN /\ job' = j
                     /\ memory_jobs' = WriteFile(memory_jobs, JobData(j), o)
                     /\ depth' = depth + 1
                     /\ pc' = "loop"
                     /\ UNCHANGED memory_results
                ELSE /\ Finally(ExceptHandler(j, o), WriteFile(memory_jobs, JobData(j), o))
                     /\ UNCHANGED depth
    /\ UNCHANGED <<svc_vars, current_batch, in_flight, batch_results, dispatched>>

\* The while test fails: _crawl_loop returns, the job is marked completed
\* and the finally block persists it.
crawl_loop_exit ==
    /\ pc = "loop"
    /\ ~LoopCondition
    /\ Finally([job EXCEPT !.status = COMPLETED, !.completed_at = TRUE,
                           !.progress = 100],
               memory_jobs)
    /\ UNCHANGED <<svc_vars, loop_vars>>

\* ---------------------------------------------------- crawler_service
\* The dict a result is stored as in job_results; the modelled contents
\* are shorter than the 1000 characters kept.
ResultDict(result) ==
    [url |-> result.url, status_code |-> result.status_code,
     content |-> result.content, links |-> result.links]

\* POST /start
start_crawl(job_id, urls, config) ==
    /\ job_id \notin issued
    /\ issued' = issued \cup {job_id}
    /\ job_objects' = Put(job_objects, job_id, NewJob(urls, config))
    /\ active_jobs' = active_jobs \cup {job_id}
    /\ job_results' = Put(job_results, job_id, <<>>)
    /\ reply' = [kind |-> "CrawlResponse", job_id |-> job_id, status |-> "started"]
    /\ pc = "idle"
    /\ pc' = "scheduled"
    /\ UNCHANGED <<agent_vars, loop_vars>>

\* job_results.get(job_id, [])
ResultsOf(job_id) ==
    IF job_id \in DOMAIN job_results THEN job_results[job_id] ELSE <<>>

\* The CrawlJobStatus get_crawl_status builds for a registered job, with
\* the progress in whole percent. error is not passed and keeps its
\* default.
CrawlJobStatus(job_id) ==
    LET j == job_objects[job_id]
        results == ResultsOf(job_id)
    IN [kind |-> "CrawlJobStatus",
        job_id |-> job_id,
        status |-> j.status,
        progress |-> Min(100, (Len(results) * 100) \div j.config.max_pages),
        pages_crawled |-> Len(results),
        total_pages |-> j.config.max_pages,
        results_count |-> Len(results),
        started_at |-> j.started_at,
        completed_at |-> j.completed_at,
        error |-> None]

\* GET /status/{job_id}
get_crawl_status(job_id) ==
    /\ reply' = IF job_id \notin active_jobs THEN NotFound
                ELSE CrawlJobStatus(job_id)
    /\ UNCHANGED <<job_objects, active_jobs, job_results, issued, pc,
                   agent_vars, loop_vars>>

\* GET /results/{job_id}, first page; the modelled result lists are
\* shorter than the page.
get_crawl_results(job_id) ==
    /\ reply' = IF job_id \notin active_jobs THEN NotFound
                ELSE [kind |-> "results", job_id |-> job_id,
                      total_results |-> Len(ResultsOf(job_id)),
                      results |-> ResultsOf(job_id)]
    /\ UNCHANGED <<job_objects, active_jobs, job_results, issued, pc,
                   agent_vars, loop_vars>>

\* POST /stop/{job_id}
stop_crawl(job_id) ==
    /\ IF job_id \notin active_jobs
       THEN /\ reply' = NotFound
            /\ UNCHANGED job_objects
       ELSE IF job_objects[job_id].status \in {COMPLETED, FAILED}
       THEN /\ reply' = Message("Job already completed")
            /\ UNCHANGED job_objects
       ELSE /\ job_objects' = [job_objects EXCEPT ![job_id].status = PAUSED,
                                                  ![job_id].completed_at = TRUE]
            /\ reply' = Message("Crawl job stopped successfully")
    /\ UNCHANGED <<active_jobs, job_results, issued, pc, agent_vars, loop_vars>>

\* DELETE /job/{job_id}
delete_crawl_job_without_lookup(job_id) ==
    /\ active_jobs' = active_jobs \ {job_id}
    /\ job_results' = Del(job_results, job_id)
    /\ reply' = Message("Crawl job deleted successfully")
    /\ UNCHANGED <<job_objects, issued, pc, agent_vars, loop_vars>>

delete_crawl_job(job_id) ==
    /\ IF job_id \notin active_jobs
       THEN /\ reply' = NotFound
            /\ UNCHANGED <<active_jobs, job_results>>
       ELSE /\ active_jobs' = active_jobs \ {job_id}
            /\ job_results' = Del(job_results, job_id)
            /\ reply' = Message("Crawl job deleted successfully")
    /\ UNCHANGED <<job_objects, issued, pc, agent_vars, loop_vars>>

\* The background task execute_crawl_job up to the call of crawl_urls.
\* active_jobs[job_id] of a deleted job raises KeyError, and the handler
\* finds no job to mark.
service_execute_start(job_id) ==
    /\ pc = "scheduled"
    /\ job_id \in issued
    /\ IF job_id \in active_jobs
       THEN /\ job_objects' = [job_objects EXCEPT ![job_id].status = RUNNING,
                                                  ![job_id].started_at = TRUE]
            /\ pc' = "crawl_urls"
       ELSE /\ UNCHANGED job_objects
            /\ pc' = "done"
    /\ UNCHANGED <<active_jobs, job_results, issued, reply, agent_vars, loop_vars>>

\* ManusCrawler.crawl_urls(job.urls, job.config) up to execute_crawl_job:
\* it creates the agent's job from the urls and the config it was given.
crawl_urls(job_id) ==
    /\ pc = "crawl_urls"
    /\ job_id \in issued
    /\ create_crawl_job(job_objects[job_id].urls, job_objects[job_id].config)
    /\ UNCHANGED svc_vars

\* crawl_urls returned job.results: the results are stored and the job the
\* task holds is marked completed.
service_execute_store(job_id) ==
    /\ pc = "returned"
    /\ job_id \in issued
    /\ job_results' = Put(job_results, job_id,
                          [i \in DOMAIN job.results |-> ResultDict(job.results[i])])
    /\ job_objects' = [job_objects EXCEPT ![job_id].status = COMPLETED,
                                          ![job_id].completed_at = TRUE,
                                          ![job_id].results = job.results]
    /\ pc' = "done"
    /\ UNCHANGED <<active_jobs, issued, reply, agent_vars, loop_vars>>

\* crawl_urls raised: except Exception of the background task.
service_execute_except_stores_results(job_id) ==
    /\ pc \in {"create_raised", "raised"}
    /\ job_id \in issued
    /\ IF job_id \in active_jobs
       THEN job_objects' = [job_objects EXCEPT ![job_id].status = FAILED,
                                               ![job_id].completed_at = TRUE]
       ELSE UNCHANGED job_objects
    /\ job_results' = Put(job_results, job_id,
                          [i \in DOMAIN job.results |-> ResultDict(job.results[i])])
    /\ pc' = "done"
    /\ UNCHANGED <<active_jobs, issued, reply, agent_vars, loop_vars>>

service_execute_except(job_id) ==
    /\ pc \in {"create_raised", "raised"}
    /\ job_id \in issued
    /\ IF job_id \in active_jobs
       THEN job_objects' = [job_objects EXCEPT ![job_id].status = FAILED,
                                               ![job_id].completed_at = TRUE]
       ELSE UNCHANGED job_objects
    /\ pc' = "done"
    /\ UNCHANGED <<active_jobs, job_results, issued, reply, agent_vars, loop_vars>>

\* ---------------------------------------------------------------- inputs
\* The seed lists of the modelled requests.
SeedUrls == {PageA, PageB}
SeedLists == SeqsUpTo(SeedUrls, MaxSeeds)

\* ------------------------------------------- CrawlerMemory, value by value
\* Python values whose type json changes or rejects: a tuple, a list, and
\* a member of ExtractionType.
PyTuple(items) == [py |-> "tuple", items |-> items]
PyList(items) == [py |-> "list", items |-> items]
ExtractionType == {[py |-> "ExtractionType", value |-> v] : v \in {"text", "links"}}

\* The extract_types a config can carry: the list start_crawl builds from
\* names it does not know, one type, and the default of __post_init__.
ExtractTypeLists ==
    {<<>>,
     <<[py |-> "ExtractionType", value |-> "text"]>>,
     <<[py |-> "ExtractionType", value |-> "text"],
       [py |-> "ExtractionType", value |-> "links"]>>}

\* CrawlConfig with the fields whose values json does not keep as they
\* are: delay_range (a tuple) and extract_types (enum members).
StoredConfig ==
    [max_pages : 1..MaxPages, max_depth : 1..MaxDepth,
     delay_range : {PyTuple(<<1, 3>>)}, extract_types : ExtractTypeLists]

\* The validated results a job with these seeds can hold in this status
\* when it is saved.
StoredResults(urls, status) ==
    IF status = PENDING \/ PageA \notin Range(urls) THEN {<<>>}
    ELSE {<<>>, <<PageResult(PageA, 200, "<html>", <<PageB>>)>>}

\* The jobs save_job is called with: a CrawlJob in one of the statuses
\* the agent assigns, with its fields as create_crawl_job and
\* execute_crawl_job leave them.
StoredJobs ==
    UNION {{[urls |-> u, config |-> c, status |-> s, results |-> r,
             started_at |-> (s # PENDING),
             completed_at |-> (s \in {COMPLETED, FAILED}),
             error_message |-> IF s = FAILED THEN "dump_failed" ELSE None,
             progress |-> IF s = COMPLETED THEN 100
                          ELSE Progress(Len(r), c.max_pages)] :
               c \in StoredConfig, r \in StoredResults(u, s)} :
           u \in SeedLists, s \in {PENDING, RUNNING, COMPLETED, FAILED}}

\* json.dump raises TypeError on a value that is no str, int, float, bool,
\* None, list, tuple or dict: here, on a member of ExtractionType.
JsonEncodable(config) ==
    \A i \in DOMAIN config.extract_types :
        config.extract_types[i] \notin ExtractionType

\* json.load(json.dump(asdict(config))): asdict copies the fields as they
\* are, json writes a tuple as an array and reads an array as a list.
JsonConfig(config) ==
    [config EXCEPT !.delay_range = PyList(config.delay_range.items)]

\* save_job on the value level: job_data is built, the file opened for
\* writing and dumped; a dump that raises leaves the file truncated.
save_job ==
    /\ pc = "store"
    /\ IF JsonEncodable(job.config)
       THEN /\ memory_jobs' = Json([JobData(job) EXCEPT !.config = JsonConfig(job.config)])
            /\ pc' = "saved"
       ELSE /\ memory_jobs' = Corrupt
            /\ pc' = "save_raised"
    /\ UNCHANGED <<svc_vars, job, memory_results, loop_vars>>

\* save_results: every field of a result is a str, an int, a list or None
\* and is read back as written.
save_results ==
    /\ pc = "saved"
    /\ memory_results' = Json(job.results)
    /\ pc' = "results_saved"
    /\ UNCHANGED <<svc_vars, job, memory_jobs, loop_vars>>

\* load_results: [] when the file is missing or cannot be parsed
load_results(results_file) ==
    IF results_file.file = "json" THEN results_file.data ELSE <<>>

\* What a query that found no job returns.
NoneReply == [kind |-> "None"]

\* load_job: None when the file is missing or cannot be parsed, else the
\* CrawlJob rebuilt from job_data with the results of load_results.
load_job(job_file, results_file) ==
    IF job_file.file # "json" THEN NoneReply
    ELSE [kind |-> "CrawlJob",
          job |-> [urls |-> job_file.data.urls,
                   config |-> job_file.data.config,
                   status |-> job_file.data.status,
                   results |-> load_results(results_file),
                   started_at |-> job_file.data.started_at,
                   completed_at |-> job_file.data.completed_at,
                   error_message |-> job_file.data.error_message,
                   progress |-> job_file.data.progress]]

\* ------------------------------------------------ queries of the tool
\* The files of the store a job id names: the files of the agent's job,
\* and no file for an id no job was created with.
JobFile(job_id) == IF job_id \in JobIds THEN memory_jobs ELSE Absent
ResultsFile(job_id) == IF job_id \in JobIds THEN memory_results ELSE Absent

\* ManusCrawlerAgent.get_job_status: None, or the dict built from the
\* loaded job.
get_job_status(job_file, results_file) ==
    LET loaded == load_job(job_file, results_file)
    IN IF loaded.kind = "None" THEN NoneReply
       ELSE [kind |-> "job_status",
             status |-> loaded.job.status,
             progress |-> loaded.job.progress,
             started_at |-> loaded.job.started_at,
             completed_at |-> loaded.job.completed_at,
             error_message |-> loaded.job.error_message,
             results_count |-> Len(loaded.job.results),
             urls_count |-> Len(loaded.job.urls)]

\* ManusCrawlerAgent.get_job_results: None, or the list of the dicts built
\* from the results of the loaded job.
get_job_results(job_file, results_file) ==
    LET loaded == load_job(job_file, results_file)
    IN IF loaded.kind = "None" THEN NoneReply
       ELSE [kind |-> "list",
             items |-> [i \in DOMAIN loaded.job.results |->
                          [url |-> loaded.job.results[i].url,
                           status_code |-> loaded.job.results[i].status_code,
                           links_count |-> Len(loaded.job.results[i].links),
                           error |-> loaded.job.results[i].error]]]

\* {'error': 'Job not found', 'job_id': job_id}
JobNotFound(job_id) == [kind |-> "error", error |-> "Job not found", job_id |-> job_id]

\* ManusCrawlerTool.get_crawl_status: `if status:` is true of every dict
\* get_job_status returns.
tool_get_crawl_status(job_id) ==
    /\ LET status == get_job_status(JobFile(job_id), ResultsFile(job_id))
       IN reply' = IF status.kind # "None" THEN status ELSE JobNotFound(job_id)
    /\ UNCHANGED <<job_objects, active_jobs, job_results, issued, pc,
                   agent_vars, loop_vars>>

\* ManusCrawlerTool.get_crawl_results: `if results:` is true of a list
\* that is not empty.
tool_get_crawl_results(job_id) ==
    /\ LET results == get_job_results(JobFile(job_id), ResultsFile(job_id))
       IN reply' = IF results.kind # "None" /\ results.items # <<>>
                   THEN [kind |-> "tool_results", job_id |-> job_id,
                         results_count |-> Len(results.items),
                         results |-> results.items]
                   ELSE JobNotFound(job_id)
    /\ UNCHANGED <<job_objects, active_jobs, job_results, issued, pc,
                   agent_vars, loop_vars>>

\* A caller loads the job it saved by its id.
load_saved_job ==
    /\ pc \in {"saved", "save_raised", "results_saved"}
    /\ reply' = load_job(memory_jobs, memory_results)
    /\ pc' = "loaded"
    /\ UNCHANGED <<job_objects, active_jobs, job_results, issued, agent_vars, loop_vars>>

\* ------------------------------------------------------- specification
\* The agent driven by ManusCrawlerTool.crawl_websites.
AgentNext ==
    \/ execute_crawl_job
    \/ crawl_loop_dispatch
    \/ \E i \in 1..BatchCap : crawl_single_url_return(i)
    \/ crawl_loop_batch_end
    \/ crawl_loop_exit

Next ==
    \/ \E urls \in SeedLists, config \in CrawlConfig : crawl_websites(urls, config)
    \/ AgentNext

Spec == Init /\ [][Next]_vars

\* Runs to their end, under the event loop's scheduling: a coroutine of the
\* agent that can run does run. A fetch returns or times out (page.goto is
\* given config.timeout), the sleep between batches ends, and files are
\* local. The jobs have no seed, one seed, or two.
RunSeedLists == {<<>>, <<PageA>>, <<PageA, PageB>>}

RunNext ==
    \/ \E urls \in RunSeedLists, config \in CrawlConfig : crawl_websites(urls, config)
    \/ AgentNext

RunSpec == Init /\ [][RunNext]_vars /\ WF_vars(AgentNext)

\* The requests clients send about a job.
ServiceRequests ==
    \/ \E job_id \in RequestIds : get_crawl_status(job_id)
    \/ \E job_id \in RequestIds : get_crawl_results(job_id)
    \/ \E job_id \in RequestIds : stop_crawl(job_id)
    \/ \E job_id \in RequestIds : delete_crawl_job(job_id)

\* The background task of a job.
ServiceTask ==
    \/ \E job_id \in JobIds : service_execute_start(job_id)
    \/ \E job_id \in JobIds : crawl_urls(job_id)
    \/ AgentNext
    \/ \E job_id \in JobIds : service_execute_store(job_id)
    \/ \E job_id \in JobIds : service_execute_except(job_id)

\* The agent driven by the service's background task.
ServiceNext ==
    \/ \E job_id \in JobIds, urls \in SeedLists, config \in CrawlConfig :
          start_crawl(job_id, urls, config)
    \/ ServiceRequests
    \/ ServiceTask

ServiceSpec == Init /\ [][ServiceNext]_vars

\* The service with one seed URL per job: the requests and the background
\* task are the same, the crawls are shorter.
RequestSeedLists == SeqsUpTo({PageA}, 1)

RequestNext ==
    \/ \E job_id \in JobIds, urls \in RequestSeedLists, config \in CrawlConfig :
          start_crawl(job_id, urls, config)
    \/ ServiceRequests
    \/ ServiceTask

RequestSpec == Init /\ [][RequestNext]_vars

\* One batch larger than the concurrency limit: jobs of up to MaxBatchSeeds
\* seeds that end after their first batch. Every fetch that holds the
\* semaphore returns: page.goto is given config.timeout and a failure ends
\* the coroutine through its except clause, and the event loop runs every
\* task that is ready.
BatchSeedLists ==
    {[i \in 1..n |-> IF i % 2 = 1 THEN PageA ELSE PageB] : n \in 1..MaxBatchSeeds}

BatchNext ==
    \/ \E urls \in BatchSeedLists, config \in [max_pages : {MaxPages}, max_depth : {1}] :
          crawl_websites(urls, config)
    \/ AgentNext

BatchSpec ==
    /\ Init
    /\ [][BatchNext]_vars
    /\ \A i \in 1..BatchCap : WF_vars(crawl_single_url_return(i))

\* A job with one seed more than a batch holds.
CapSeedLists ==
    {[i \in 1..(BatchCap + 1) |-> IF i % 2 = 1 THEN PageA ELSE PageB]}

CapNext ==
    \/ \E urls \in CapSeedLists,
          config \in [max_pages : {MaxPages}, max_depth : 1..MaxDepth] :
          crawl_websites(urls, config)
    \/ AgentNext

CapSpec == Init /\ [][CapNext]_vars

\* The tool: crawls as in RunSpec, and status and results queries, which
\* open the store on their own and can be made at any time.
QueryNext ==
    \/ RunNext
    \/ \E job_id \in RequestIds : tool_get_crawl_status(job_id)
    \/ \E job_id \in RequestIds : tool_get_crawl_results(job_id)

QuerySpec == Init /\ [][QueryNext]_vars

\* A crawl that starts at the hub page.
HubSeedLists == {<<PageHub>>}

HubNext ==
    \/ \E urls \in HubSeedLists, config \in CrawlConfig : crawl_websites(urls, config)
    \/ AgentNext

HubSpec == Init /\ [][HubNext]_vars

\* CrawlerMemory alone: a job in any status is saved and loaded again.
StoreInit ==
    /\ job_objects = EmptyMap
    /\ active_jobs = {}
    /\ job_results = EmptyMap
    /\ issued = {}
    /\ reply = NoReply
    /\ pc = "store"
    /\ job \in StoredJobs
    /\ memory_jobs = Absent
    /\ memory_results = Absent
    /\ urls_to_crawl = <<>>
    /\ crawled_urls = {}
    /\ depth = 0
    /\ current_batch = <<>>
    /\ in_flight = {}
    /\ batch_results = EmptyMap
    /\ dispatched = <<>>

StoreNext ==
    \/ save_job
    \/ save_results
    \/ load_saved_job

StoreSpec == StoreInit /\ [][StoreNext]_vars

\* ================================================================ claims

\* C1: the job's result list never holds more than max_pages validated
\* results, at any point of the execution.
C1_ResultsWithinMaxPages ==
    job.status # "none" => Len(job.results) <= job.config.max_pages

\* C2: once stop has set a running job to PAUSED, no further batch is
\* dispatched when the loop reaches the top of its next iteration.
C2_NoDispatchAfterStop ==
    [][\A job_id \in DOMAIN job_objects :
          (job_objects[job_id].status = PAUSED /\ pc = "loop") => pc' # "fetching"]_vars

\* C3: PAUSED, COMPLETED and FAILED are final: once a job of the service
\* has one of these statuses, no later step changes its status.
C3_TerminalStatusIsFinal ==
    [][\A job_id \in DOMAIN job_objects :
          job_objects[job_id].status \in {PAUSED, COMPLETED, FAILED} =>
             job_objects'[job_id].status = job_objects[job_id].status]_vars

\* C4: execute_crawl_job never ends by raising; it returns the job, which
\* is COMPLETED, or FAILED with the exception's message recorded.
C4_ExecuteNeverRaises ==
    /\ pc # "raised"
    /\ pc = "returned" =>
          \/ job.status = COMPLETED
          \/ job.status = FAILED /\ job.error_message # None

\* C5: when execute_crawl_job returns, the store holds the returned job's
\* status, progress and error message, and the persisted result collection
\* is the returned job's result list.
C5_FinalStatePersisted ==
    pc = "returned" =>
        /\ memory_jobs.file = "json"
        /\ memory_jobs.data.status = job.status
        /\ memory_jobs.data.progress = job.progress
        /\ memory_jobs.data.error_message = job.error_message
        /\ memory_results.file = "json"
        /\ memory_results.data = job.results

\* C5 witness: execute_crawl_job has returned a FAILED job that had
\* already collected results.
C5_Witness ==
    pc = "returned" /\ job.status = FAILED /\ job.results # <<>>

\* C6: at the end of every batch iteration no URL of the frontier is in
\* the fetched set.
C6_FrontierDisjointFromFetched ==
    pc = "loop" => Range(urls_to_crawl) \cap crawled_urls = {}

\* C7: within a run of a job whose seeds are distinct, no URL is dispatched
\* twice and the frontier never holds a URL twice.
C7_NoUrlDispatchedTwice ==
    NoDuplicates(job.urls) =>
        /\ NoDuplicates(Flatten(dispatched))
        /\ NoDuplicates(urls_to_crawl)

\* C8: after each batch the fetched set contains every URL attempted so
\* far, validated or not.
C8_FetchedSetHasEveryAttempt ==
    pc = "loop" => Range(Flatten(dispatched)) \subseteq crawled_urls

\* C9: every URL a batch iteration appends to the frontier is a link of a
\* result of that batch that has no error, a status code in [200, 400) and
\* non-blank content.
C9_FrontierFromValidatedOnly ==
    [][(pc = "fetching" /\ pc' # "fetching") =>
          \A i \in (Len(urls_to_crawl) + 1)..Len(urls_to_crawl') :
             \E k \in DOMAIN batch_results :
                /\ batch_results[k].error = None
                /\ batch_results[k].status_code \in 200..399
                /\ batch_results[k].content \notin {"", "  "}
                /\ urls_to_crawl'[i] \in Range(batch_results[k].links)]_vars

\* C9 witness: a batch that held a result rejected by validation with
\* links of its own has been processed and the frontier was expanded.
C9_Witness ==
    /\ pc = "loop"
    /\ depth = 1
    /\ urls_to_crawl # <<>>
    /\ \E k \in DOMAIN batch_results :
          batch_results[k].status_code = 404 /\ batch_results[k].links # <<>>

\* C10: depth counts the batches dispatched and never more than max_depth
\* are dispatched; with max_depth = 1 and one seed, at most that seed is
\* fetched, at most one result is produced, and a completed run fetched
\* exactly the seed.
C10_DepthBoundsBatches ==
    /\ Len(dispatched) <= job.config.max_depth
    /\ pc = "loop" => depth = Len(dispatched)
    /\ pc = "fetching" => depth + 1 = Len(dispatched)
    /\ (job.config.max_depth = 1 /\ Len(job.urls) = 1) =>
          /\ Len(Flatten(dispatched)) <= 1
          /\ Len(job.results) <= 1
          /\ job.status = COMPLETED => Flatten(dispatched) = job.urls

\* C10 witness: a completed run with max_depth = 1 and one seed whose page
\* was validated and whose link is still in the frontier, unfetched.
C10_Witness ==
    /\ job.status = COMPLETED
    /\ job.config.max_depth = 1
    /\ Len(job.urls) = 1
    /\ Len(job.results) = 1
    /\ urls_to_crawl # <<>>
    /\ Flatten(dispatched) = job.urls

\* C11: a job in any status that is saved and then loaded by its id comes
\* back with the same status, seed URLs, policy fields (a tuple read back
\* as a list counted as the same) and number of results.
C11_StoreRoundTrip ==
    pc = "loaded" =>
        /\ reply.kind = "CrawlJob"
        /\ reply.job.status = job.status
        /\ reply.job.urls = job.urls
        /\ reply.job.config.max_pages = job.config.max_pages
        /\ reply.job.config.max_depth = job.config.max_depth
        /\ reply.job.config.delay_range.items = job.config.delay_range.items
        /\ reply.job.config.extract_types = job.config.extract_types
        /\ Len(reply.job.results) = Len(job.results)

\* C12: a batch iteration appends to the job's result list exactly the
\* results of the batch that have no error, a status code in [200, 400)
\* and content that is not blank, in batch order; hence every result of
\* the job has a status code in [200, 399] and no error.
C12_AppendedIffValid ==
    [][/\ (pc = "fetching" /\ pc' # "fetching") =>
             job'.results = job.results \o
                 SelectSeq(batch_results,
                           LAMBDA r : /\ r.error = None
                                      /\ r.status_code \in 200..399
                                      /\ r.content \notin {"", "  "})
       /\ \A i \in DOMAIN job'.results :
             /\ job'.results[i].status_code \in 200..399
             /\ job'.results[i].error = None]_vars

\* C12 witness: a batch held a page served with 400 and a page served
\* with 399; the iteration is over and only the second is a result of the
\* job.
C12_Witness ==
    /\ pc = "loop"
    /\ \E k \in DOMAIN batch_results : batch_results[k].status_code = 400
    /\ \E k \in DOMAIN batch_results : batch_results[k].status_code = 399
    /\ \E i \in DOMAIN job.results : job.results[i].status_code = 399
    /\ \A i \in DOMAIN job.results : job.results[i].status_code # 400

\* C13: a fetch that fails yields, for its URL, a result with status code
\* 0, empty content, no links and the error set; no such result is among
\* the job's results; and when the batch iteration ends every URL of the
\* batch has its own result, whatever happened to the others.
C13_FailedFetchIsContained ==
    /\ \A i \in DOMAIN batch_results :
          /\ i \in 1..Len(current_batch)
          /\ batch_results[i].url = current_batch[i]
          /\ batch_results[i].error # None =>
                /\ batch_results[i].status_code = 0
                /\ batch_results[i].content = ""
                /\ batch_results[i].links = <<>>
    /\ \A i \in DOMAIN job.results :
          /\ job.results[i].error = None
          /\ job.results[i].status_code # 0
    /\ (pc = "fetching" /\ in_flight = {}) =>
          DOMAIN batch_results = 1..Len(current_batch)
    /\ (pc = "loop" /\ dispatched # <<>>) =>
          DOMAIN batch_results = 1..Len(current_batch)

\* C13 witness: the first fetch of a batch of two failed, the second was
\* fetched and validated, and the iteration ended with the second as the
\* job's only result.
C13_Witness ==
    /\ pc = "loop"
    /\ Len(current_batch) = 2
    /\ DOMAIN batch_results = {1, 2}
    /\ batch_results[1].error # None
    /\ batch_results[2].error = None
    /\ job.results = <<batch_results[2]>>

\* C14: on the agent's job record the progress after a batch is
\* min(95, len(results) / max_pages x 100), it is below 100 while the job
\* is pending or running and 100 once the job is COMPLETED; and the status
\* endpoint reports 100 for a COMPLETED job (stated here for jobs that had
\* seed URLs and whose crawl the agent completed as well).
C14_ProgressReported ==
    /\ (pc = "loop" /\ dispatched # <<>>) =>
          job.progress = Min(95, (Len(job.results) * 100) \div job.config.max_pages)
    /\ job.status \in {PENDING, RUNNING} => job.progress < 100
    /\ job.status = COMPLETED => job.progress = 100
    /\ (/\ reply.kind = "CrawlJobStatus"
        /\ reply.status = COMPLETED
        /\ job_objects[reply.job_id].urls # <<>>
        /\ job.status = COMPLETED) => reply.progress = 100

\* C15: the status the status endpoint returns for a FAILED job carries
\* an error message: its error field is not null.
C15_FailedStatusCarriesError ==
    (reply.kind = "CrawlJobStatus" /\ reply.status = FAILED) => reply.error # None

\* C16: the registry holds results only for job ids that have a job
\* record; in particular a deleted job has neither record in any later
\* state.
C16_NoResultsWithoutJob ==
    \A job_id \in DOMAIN job_results : job_id \in active_jobs

\* C17: a status, results, stop or delete request for a job id that is
\* not registered is answered with 404 and leaves the set of jobs, every
\* job and every result collection as they were.
C17_UnknownJobIsNotFound ==
    [][\A job_id \in RequestIds :
          (/\ job_id \notin active_jobs
           /\ \/ get_crawl_status(job_id)
              \/ get_crawl_results(job_id)
              \/ stop_crawl(job_id)
              \/ delete_crawl_job(job_id)) =>
             /\ reply'.kind = "HTTPException"
             /\ reply'.status_code = 404
             /\ UNCHANGED <<job_objects, active_jobs, job_results>>]_vars

\* C17 witness: a request for the id of a deleted job was answered with
\* 404 while the job's background task was still fetching; a result list
\* and the job object of that id are untouched.
C17_Witness ==
    /\ reply.kind = "HTTPException"
    /\ reply.status_code = 404
    /\ issued = {"j1"}
    /\ active_jobs = {}
    /\ pc = "fetching"
    /\ job_objects["j1"].status = RUNNING

\* C18: a stop request changes a registered job only when the job is
\* RUNNING, which it makes PAUSED; a COMPLETED or FAILED job keeps its
\* status, timestamps and results, and a PENDING job is not made PAUSED.
C18_StopOnlyFromRunning ==
    [][\A job_id \in RequestIds :
          (job_id \in active_jobs /\ stop_crawl(job_id)) =>
             /\ job_objects[job_id].status = RUNNING =>
                   job_objects'[job_id].status = PAUSED
             /\ job_objects[job_id].status \in {COMPLETED, FAILED} =>
                   /\ job_objects'[job_id] = job_objects[job_id]
                   /\ UNCHANGED job_results
             /\ job_objects[job_id].status = PENDING =>
                   job_objects'[job_id].status # PAUSED]_vars

\* C19: the job create returns is PENDING, has no results and is in the
\* Job Store; wherever the agent stands after a status change and its
\* save, the stored status is the job's status; and a job that stop has
\* taken from RUNNING to PAUSED is stored as PAUSED.
C19_TransitionsArePersisted ==
    /\ pc = "created" =>
          /\ job.status = PENDING
          /\ job.results = <<>>
    /\ pc \in {"created", "loop", "fetching", "returned"} =>
          /\ memory_jobs.file = "json"
          /\ memory_jobs.data.status = job.status
    /\ \A job_id \in active_jobs :
          (job_objects[job_id].status = PAUSED /\ job_objects[job_id].started_at) =>
             /\ memory_jobs.file = "json"
             /\ memory_jobs.data.status = PAUSED

\* C20: while a batch is fetched at most min(3, batch size) fetches hold
\* the semaphore; a fetch enters only at dispatch, as one of the first
\* min(3, batch size), or in a step in which a fetch that held a slot
\* returns; a fetch that returns, with a page or with an error, gives its
\* slot up; and every fetch of the batch eventually runs and returns.
C20_SemaphoreBoundsFetches ==
    /\ [](pc = "fetching" =>
             /\ Cardinality(in_flight) <= Min(3, Len(current_batch))
             /\ in_flight \subseteq 1..Len(current_batch)
             /\ in_flight \cap DOMAIN batch_results = {})
    /\ [][/\ (pc = "loop" /\ pc' = "fetching") =>
                in_flight' = 1..Min(3, Len(current_batch'))
          /\ (pc = "fetching" /\ pc' = "fetching") =>
                /\ \A i \in in_flight' \ in_flight :
                      \E k \in in_flight \ in_flight' : k \in DOMAIN batch_results'
                /\ \A i \in DOMAIN batch_results' \ DOMAIN batch_results :
                      i \in in_flight /\ i \notin in_flight'
                /\ \A i \in 1..Len(current_batch) :
                      (i \notin in_flight /\ i \notin DOMAIN batch_results /\ i \in in_flight') =>
                         Cardinality(in_flight) = Min(3, Len(current_batch))]_vars
    /\ (pc = "fetching") ~> (DOMAIN batch_results = 1..Len(current_batch))

\* C20 witness: in a batch of four the first fetch has failed and given up
\* its slot, the fourth fetch, which had to wait, holds it, and three
\* fetches are in flight.
C20_Witness ==
    /\ pc = "fetching"
    /\ Len(current_batch) = 4
    /\ in_flight = {2, 3, 4}
    /\ DOMAIN batch_results = {1}
    /\ batch_results[1].error # None

\* C21: batches are sequential: a batch is dispatched only when no fetch
\* of the batch before it is in flight or waiting; the job's result list
\* changes only in the step that ends a batch, once every fetch of the
\* batch has returned; and that step keeps the results of the earlier
\* batches in front and adds results of the batch just fetched, so the
\* results of a batch precede those of every later batch whatever the
\* order in which the fetches returned.
C21_BatchesAreSequential ==
    [][/\ (pc # "fetching" /\ pc' = "fetching") =>
             /\ in_flight = {}
             /\ dispatched # <<>> => DOMAIN batch_results = 1..Len(current_batch)
       /\ job'.results # job.results =>
             /\ pc = "fetching"
             /\ in_flight = {}
             /\ DOMAIN batch_results = 1..Len(current_batch)
       /\ (pc = "fetching" /\ pc' # "fetching") =>
             /\ Len(job'.results) >= Len(job.results)
             /\ SubSeq(job'.results, 1, Len(job.results)) = job.results
             /\ \A i \in (Len(job.results) + 1)..Len(job'.results) :
                   job'.results[i] \in Range(batch_results)]_vars

\* C21 witness: the second batch is being fetched while the job holds a
\* result of the first batch, a batch of two whose second fetch is not
\* a result of the job.
C21_Witness ==
    /\ pc = "fetching"
    /\ Len(dispatched) = 2
    /\ Len(dispatched[1]) = 2
    /\ Len(job.results) = 1
    /\ job.results[1].url = dispatched[1][1]
    /\ batch_results = EmptyMap


\* C22: every job that is executed eventually leaves RUNNING; at the top
\* of the loop, an empty frontier, a depth counter that has reached
\* max_depth or a result list that has reached max_pages ends the loop at
\* once and the job becomes COMPLETED, while anything else dispatches a
\* batch and leaves the job RUNNING; and the job becomes FAILED exactly in
\* the steps in which an exception leaves the try block, with the message
\* recorded.
C22_RunTerminates ==
    /\ (job.status = RUNNING) ~> (job.status \in {COMPLETED, FAILED})
    /\ [][/\ (/\ pc = "loop"
              /\ \/ urls_to_crawl = <<>>
                 \/ depth >= job.config.max_depth
                 \/ Len(job.results) >= job.config.max_pages) =>
                /\ pc' \in {"returned", "raised"}
                /\ job'.status = COMPLETED
          /\ (/\ pc = "loop"
              /\ urls_to_crawl # <<>>
              /\ depth < job.config.max_depth
              /\ Len(job.results) < job.config.max_pages) =>
                /\ pc' = "fetching"
                /\ job'.status = RUNNING
          /\ (pc \in {"created", "fetching"} /\ pc' \in {"returned", "raised"}) =>
                /\ job'.status = FAILED
                /\ job'.error_message # None
          /\ (job'.status = FAILED /\ job.status # FAILED) =>
                pc \in {"created", "fetching"}
          /\ (job'.status = COMPLETED /\ job.status # COMPLETED) =>
                pc = "loop"]_vars

\* C22 witness: a run that the depth budget ended: the job is COMPLETED
\* with URLs left in the frontier and fewer results than max_pages.
C22_Witness ==
    /\ job.status = COMPLETED
    /\ pc = "returned"
    /\ depth = job.config.max_depth
    /\ urls_to_crawl # <<>>
    /\ Len(job.results) < job.config.max_pages


\* C23: a batch is the first min(5, frontier length) URLs of the frontier
\* and the frontier keeps the rest; and URLs are dispatched in discovery
\* order: of two links extracted in the iteration before a dispatch, when
\* the one found later is in the batch, the one found earlier (if it has
\* an HTTP scheme and no skipped extension) is in the batch too or was
\* dispatched before.
C23_FifoDiscoveryOrder ==
    [][(pc = "loop" /\ pc' = "fetching") =>
          /\ current_batch' = SubSeq(urls_to_crawl, 1, Min(5, Len(urls_to_crawl)))
          /\ urls_to_crawl' = SubSeq(urls_to_crawl, Min(5, Len(urls_to_crawl)) + 1,
                                     Len(urls_to_crawl))
          /\ dispatched # <<>> =>
                LET validated == SelectSeq(batch_results,
                                           LAMBDA r : /\ r.error = None
                                                      /\ r.status_code \in 200..399
                                                      /\ r.content \notin {"", "  "})
                    found == Flatten([i \in DOMAIN validated |-> validated[i].links])
                IN \A p, q \in DOMAIN found :
                      (/\ p < q
                       /\ found[q] \in Range(current_batch')
                       /\ StartsWithHttp(found[p])
                       /\ ~EndsWithSkippedExt(Lower(found[p]))) =>
                         found[p] \in Range(current_batch') \cup Range(Flatten(dispatched))]_vars


\* C24: the URLs a batch iteration appends to the frontier are pairwise
\* distinct and are at most as many as the remaining page budget,
\* max_pages minus the number of results the job holds after the batch
\* (none when the budget is used up).
C24_ExpansionWithinBudget ==
    [][(pc = "fetching" /\ pc' # "fetching") =>
          LET added == SubSeq(urls_to_crawl', Len(urls_to_crawl) + 1, Len(urls_to_crawl'))
              remaining == job.config.max_pages - Len(job'.results)
          IN /\ NoDuplicates(added)
             /\ Len(added) <= IF remaining < 0 THEN 0 ELSE remaining]_vars


\* C25: every URL a batch iteration appends to the frontier is a link of
\* a result the iteration added to the job, has an HTTP or HTTPS scheme,
\* is not in the fetched set and does not end, in lower case, with a
\* skipped extension; and every link of those results that meets the
\* three conditions is appended when the cut to max_pages leaves room for
\* all of them.
C25_LinkEligibility ==
    [][(pc = "fetching" /\ pc' # "fetching") =>
          LET added == SubSeq(urls_to_crawl', Len(urls_to_crawl) + 1, Len(urls_to_crawl'))
              validated == SubSeq(job'.results, Len(job.results) + 1, Len(job'.results))
              links == UNION {Range(validated[i].links) : i \in DOMAIN validated}
              candidates == {a \in links : /\ StartsWithHttp(a)
                                           /\ a \notin crawled_urls
                                           /\ ~EndsWithSkippedExt(Lower(a))}
          IN /\ Range(added) \subseteq candidates
             /\ Cardinality(candidates) <= job.config.max_pages =>
                   candidates \subseteq Range(added)]_vars

\* C25 witness: a batch of two has ended; one result links to a document
\* with an upper-case extension and to a non-HTTP URL, the other to a
\* crawlable page, and the frontier received the crawlable page only.
C25_Witness ==
    /\ pc = "loop"
    /\ depth = 1
    /\ Len(job.results) = 2
    /\ job.results[1].links = <<DocPdf, FtpC>>
    /\ job.results[2].links = <<PageA>>
    /\ urls_to_crawl = <<PageA>>


\* C26: results reach the Job Store as they are produced: a status read
\* from the store between two batches of a running job finds the job,
\* the result collection read from the store is the job's result list,
\* and the results count reported is the length of that list.
C26_ResultsPersistedPerBatch ==
    [][\A job_id \in JobIds :
          (/\ tool_get_crawl_status(job_id)
           /\ job.status = RUNNING
           /\ pc = "loop"
           /\ dispatched # <<>>) =>
             /\ reply'.kind = "job_status"
             /\ load_results(memory_results) = job.results
             /\ reply'.results_count = Len(job.results)]_vars


\* C27: no batch holds more than 5 URLs, so a run dispatches at most
\* 5 x max_depth fetches in total and the job's result list never holds
\* more than 5 x max_depth results, however many seeds the job has.
C27_FetchesWithinDepthTimesBatch ==
    job.status # "none" =>
        /\ \A k \in DOMAIN dispatched : Len(dispatched[k]) <= 5
        /\ Len(Flatten(dispatched)) <= 5 * job.config.max_depth
        /\ Len(job.results) <= 5 * job.config.max_depth

\* C27 witness: a job of six seeds and max_depth = 1 has completed with
\* five results, all five fetches of its only batch validated, and the
\* sixth seed still in the frontier.
C27_Witness ==
    /\ job.status = COMPLETED
    /\ Len(job.urls) = 6
    /\ job.config.max_depth = 1
    /\ Len(Flatten(dispatched)) = 5
    /\ Len(job.results) = 5
    /\ urls_to_crawl = <<job.urls[6]>>


\* C28: for every job of the registry, and for the job the agent
\* executes, completed_at is set exactly when the status is COMPLETED,
\* FAILED or PAUSED, and started_at is set exactly when the status is not
\* PENDING.
C28_TimestampsMatchStatus ==
    /\ \A job_id \in DOMAIN job_objects :
          /\ job_objects[job_id].completed_at <=>
                job_objects[job_id].status \in {COMPLETED, FAILED, PAUSED}
          /\ job_objects[job_id].started_at <=>
                job_objects[job_id].status # PENDING
    /\ job.status # "none" =>
          /\ job.completed_at <=> job.status \in {COMPLETED, FAILED, PAUSED}
          /\ job.started_at <=> job.status # PENDING


\* C29: the tool's get_crawl_results answers 'Job not found' when no job
\* with the id is stored, and for a stored job whose result collection
\* has been written, whatever the number of its results, it returns the
\* job id, the results count and the result list.
C29_ResultsOfStoredJob ==
    [][\A job_id \in RequestIds :
          tool_get_crawl_results(job_id) =>
             /\ JobFile(job_id).file = "absent" =>
                   /\ reply'.kind = "error"
                   /\ reply'.error = "Job not found"
             /\ (JobFile(job_id).file = "json" /\ ResultsFile(job_id).file = "json") =>
                   /\ reply'.kind = "tool_results"
                   /\ reply'.job_id = job_id
                   /\ reply'.results_count = Len(load_results(ResultsFile(job_id)))
                   /\ Len(reply'.results) = reply'.results_count]_vars


\* C30: the result collection of a job of the registry changes only in
\* the step in which its background execution completes and the job
\* becomes COMPLETED; hence for a registered job that is PENDING,
\* RUNNING, PAUSED or FAILED the status endpoint reports pages_crawled,
\* results_count and progress 0 and the results endpoint returns an empty
\* list.
C30_RegistryResultsOnlyOnSuccess ==
    [][/\ \A job_id \in DOMAIN job_results \cap DOMAIN job_results' :
             job_results'[job_id] # job_results[job_id] =>
                /\ pc = "returned"
                /\ job_objects'[job_id].status = COMPLETED
       /\ \A job_id \in active_jobs :
             job_objects[job_id].status \in {PENDING, RUNNING, PAUSED, FAILED} =>
                /\ get_crawl_status(job_id) =>
                      /\ reply'.kind = "CrawlJobStatus"
                      /\ reply'.status = job_objects[job_id].status
                      /\ reply'.pages_crawled = 0
                      /\ reply'.results_count = 0
                      /\ reply'.progress = 0
                /\ get_crawl_results(job_id) =>
                      /\ reply'.kind = "results"
                      /\ reply'.total_results = 0
                      /\ reply'.results = <<>>]_vars

\* C30 witness: the status endpoint has reported a FAILED job with no
\* page crawled although the crawl had collected a result before it
\* raised.
C30_Witness ==
    /\ reply.kind = "CrawlJobStatus"
    /\ reply.status = FAILED
    /\ reply.pages_crawled = 0
    /\ pc = "done"
    /\ job.results # <<>>

====
